---- MODULE Spec2Model ----
(***************************************************************************)
(* Model of the email-header proof core of NULL-ID:                        *)
(*   - the circom circuit EmailHeaderVerifier (eml_receiver.circom), and   *)
(*   - its off-chain input builder buildCircuitInput (the email page).     *)
(*                                                                         *)
(* Scaling.  TLC enumerates buffers and selector vectors, so the sizes are *)
(* scaled down together: the buffer capacity 8192 becomes MaxLen, the      *)
(* 31-byte chunk becomes ChunkBytes = 3, the hard-coded chunk count 265    *)
(* becomes CHUNK_COUNT = 3, and the literals "From:", "To:", "@gmail.com"  *)
(* (5, 3, 10 bytes) become "F:", "T:", "@gm" (2, 2, 3 bytes).  Bytes keep  *)
(* their real base 256.  The real numbers are kept as REAL_* definitions.  *)
(*                                                                         *)
(* Field elements are integers; every value that occurs is far below the   *)
(* field prime, so an equality constraint is integer equality.  A negative    *)
(* integer -k stands for the field element p - k.  Poseidon is an external *)
(* collision-resistant hash: a digest is represented by the sequence of    *)
(* the values absorbed so far, the zero accumulator by <<0>>.              *)
(***************************************************************************)
EXTENDS Integers, Naturals, Sequences, FiniteSets, TLC

\* ------------------------------------------------------------------ bounds
MaxLen == 8
MaxTokens == 5
MaxProverTokens == 3
MaxOnes == 2

\* ------------------------------------------------------- program constants
REAL_MAX_EMAIL_LEN == 8192
REAL_CHUNK_BYTES == 31
REAL_CHUNK_COUNT == 265
ChunkBytes == 3
CHUNK_COUNT == 3
BYTE_BASE == 256
NUM2BITS_N == 8
FROM_LEN == 2
TO_LEN == 2
DOMAIN_LEN == 3

MAX == MaxLen
MAX_EMAIL_LEN == MaxLen

fromStr == <<70, 58>>
toStr == <<84, 58>>
atgStr == <<64, 103, 109>>

\* ----------------------------------------------------------------- helpers
Min(a, b) == IF a < b THEN a ELSE b

CeilDiv(a, b) == (a + b - 1) \div b

RECURSIVE Pow(_, _)
Pow(b, e) == IF e = 0 THEN 1 ELSE b * Pow(b, e - 1)

RECURSIVE SumTo(_, _)
\* sum of f[0] .. f[n-1]
SumTo(f, n) == IF n = 0 THEN 0 ELSE SumTo(f, n - 1) + f[n - 1]

\* bytes.slice(a, b) / eml.slice(a, b): elements a .. b-1 (0-based), clipped
Slice(s, a, b) ==
  LET hi == Min(b, Len(s))
  IN  IF a >= hi THEN <<>> ELSE [i \in 1..(hi - a) |-> s[a + i]]

\* ------------------------------------------------- the builder's pure parts
\* the slice taken one byte short: bytes.slice(0, MAX - 1)
PadTruncate_DropsLast(bs) ==
  [i \in 1..MAX |-> IF i <= Len(bs) /\ i < MAX THEN bs[i] ELSE 0]

\* the padding loop pushing 256 instead of 0
PadTruncate_Pad256(bs) ==
  [i \in 1..MAX |-> IF i <= Len(bs) THEN bs[i] ELSE BYTE_BASE]

\* Array.from(bytes.slice(0, MAX)); while (eml.length < MAX) eml.push(0)
PadTruncate(bs) ==
  [i \in 1..MAX |-> IF i <= Len(bs) THEN bs[i] ELSE 0]

\* does pat occur in buf starting at 0-based offset t (entirely inside buf)
OccursAt(buf, pat, t) ==
  /\ t >= 0
  /\ t + Len(pat) <= Len(buf)
  /\ \A i \in 1..Len(pat) : buf[t + i] = pat[i]

\* indexOf with a scan that stops one offset short of the last window
indexOf_ShortScan(buf, pat) ==
  LET hits == {t \in 0..Len(buf) :
                 OccursAt(buf, pat, t) /\ t + Len(pat) < Len(buf)}
  IN  IF hits = {} THEN -1
      ELSE CHOOSE t \in hits : \A u \in hits : t <= u

\* Buffer.indexOf(pattern): first offset of an occurrence, -1 when none
indexOf(buf, pat) ==
  LET hits == {t \in 0..Len(buf) : OccursAt(buf, pat, t)}
  IN  IF hits = {} THEN -1
      ELSE CHOOSE t \in hits : \A u \in hits : t <= u

RECURSIVE pack31LE_loop(_, _)
pack31LE_loop(bs, n) ==
  IF n = 0 THEN 0
  ELSE pack31LE_loop(bs, n - 1)
         + (IF n <= Len(bs) THEN bs[n] ELSE 0) * Pow(BYTE_BASE, n - 1)

RECURSIVE pack31BE_loop(_, _)
pack31BE_loop(bs, n) ==
  IF n = 0 THEN 0
  ELSE pack31BE_loop(bs, n - 1)
         + (IF n <= Len(bs) THEN bs[n] ELSE 0) * Pow(BYTE_BASE, ChunkBytes - n)

\* pack31LE with byte 0 most significant
pack31LE_BigEndian(bs) == pack31BE_loop(bs, ChunkBytes)

\* acc += BigInt(bytes[i] || 0) * mul; mul *= 256n, for i < 31
pack31LE(bs) == pack31LE_loop(bs, ChunkBytes)

strBytesAscii(s) == s

\* oneHot with the 1 written one slot late
oneHot_Shifted(length, pos) ==
  [i \in 1..length |-> IF pos >= 0 /\ pos < length /\ i = pos + 2 THEN 1 ELSE 0]

oneHot(length, pos) ==
  [i \in 1..length |-> IF pos >= 0 /\ pos < length /\ i = pos + 1 THEN 1 ELSE 0]

RECURSIVE toString(_)
\* n.toString(): the decimal digits of n >= 0, most significant first
toString(n) ==
  IF n < 10 THEN <<n>> ELSE Append(toString(n \div 10), n % 10)

RECURSIVE BigInt(_)
\* the value the witness calculator reads back from a decimal string
BigInt(str) ==
  IF Len(str) = 0 THEN 0
  ELSE 10 * BigInt(SubSeq(str, 1, Len(str) - 1)) + str[Len(str)]

\* h.toString() / the value read back, for a digest: absorbed value by value
digestToString(d) == [i \in DOMAIN d |-> toString(d[i])]

digestFromString(d) == [i \in DOMAIN d |-> BigInt(d[i])]

\* arr.map(n => n.toString()) and its inverse
mapToString(arr) == [i \in DOMAIN arr |-> toString(arr[i])]

mapBigInt(arr) == [i \in DOMAIN arr |-> BigInt(arr[i])]

\* circomlibjs poseidon([h, chunk])
Poseidon(acc, c) == Append(acc, c)

ZeroDigest == <<0>>

\* ------------------------------------------------------------- the circuit
\* 0-based access to a signal array
At(arr, k) == arr[k + 1]

\* circomlib Num2Bits(n): out[i] <-- (in >> i) & 1, each out[i] boolean,
\* and sum out[i] * 2^i === in
Num2Bits(n, in) ==
  LET out == [i \in 0..(n - 1) |-> (in \div Pow(2, i)) % 2]
  IN  /\ \A i \in 0..(n - 1) : out[i] * (out[i] - 1) = 0
      /\ SumTo([i \in 0..(n - 1) |-> out[i] * Pow(2, i)], n) = in

\* a range check that decomposes only the low 8 bits of the value
ValidateByteRange_LowBits(byte_value) ==
  Num2Bits(NUM2BITS_N, byte_value % BYTE_BASE)

\* template ValidateByteRange: the constraints of its Num2Bits(8)
ValidateByteRange(byte_value) == Num2Bits(NUM2BITS_N, byte_value)

RECURSIVE EncodeAccumulate(_, _)
\* accumulator after j rounds of: accumulator += byte_array[j] * multiplier
EncodeAccumulate(byte_array, j) ==
  IF j = 0 THEN 0
  ELSE EncodeAccumulate(byte_array, j - 1)
         + At(byte_array, j - 1) * Pow(BYTE_BASE, j - 1)

\* template EncodeBytesToField: output signal and constraints
EncodeBytesToField(byte_array) == EncodeAccumulate(byte_array, ChunkBytes)

EncodeBytesToFieldOK(byte_array) ==
  \A i \in 0..(ChunkBytes - 1) : ValidateByteRange(At(byte_array, i))

\* the byte_array wired into field_encoders[c]
ChunkInput(email_data_, maxLength, c) ==
  [k1 \in 1..ChunkBytes |->
     LET data_index == c * ChunkBytes + (k1 - 1)
     IN  IF data_index < maxLength THEN At(email_data_, data_index) ELSE 0]

RECURSIVE HashChain(_, _, _)
\* hash_components[n-1].out ; inputs[0] of component 0 is 0
HashChain(email_data_, maxLength, n) ==
  IF n = 0 THEN ZeroDigest
  ELSE Poseidon(HashChain(email_data_, maxLength, n - 1),
                EncodeBytesToField(ChunkInput(email_data_, maxLength, n - 1)))

\* hash_result taken one component early (floor instead of ceiling)
SequentialPoseidonHash_Floor(email_data_, maxLength, chunkCount) ==
  HashChain(email_data_, maxLength, chunkCount - 1)

\* template SequentialPoseidonHash: output signal hash_result
SequentialPoseidonHash(email_data_, maxLength, chunkCount) ==
  HashChain(email_data_, maxLength, chunkCount)

\* ... and the constraints of its field encoders
SequentialPoseidonHashOK(email_data_, maxLength, chunkCount) ==
  \A c \in 0..(chunkCount - 1) :
     EncodeBytesToFieldOK(ChunkInput(email_data_, maxLength, c))

VALID_POSITIONS(maxLen, patternLen) == maxLen - patternLen + 1

\* the first block without the zero-outside-the-window loop
SelectorConstraints_NoZeroOutside(selector, maxLen, patternLen) ==
  /\ \A t \in 0..(VALID_POSITIONS(maxLen, patternLen) - 1) :
        At(selector, t) * (At(selector, t) - 1) = 0
  /\ SumTo([t \in 0..(maxLen - 1) |-> At(selector, t)],
           VALID_POSITIONS(maxLen, patternLen)) = 1

\* PatternMatcher, first block: boolean, one-hot in range, zero outside
SelectorConstraints(selector, maxLen, patternLen) ==
  /\ \A t \in 0..(VALID_POSITIONS(maxLen, patternLen) - 1) :
        At(selector, t) * (At(selector, t) - 1) = 0
  /\ SumTo([t \in 0..(maxLen - 1) |-> At(selector, t)],
           VALID_POSITIONS(maxLen, patternLen)) = 1
  /\ \A u \in VALID_POSITIONS(maxLen, patternLen)..(maxLen - 1) :
        At(selector, u) = 0

\* the match relation reading email_data[t2] for every i
MatchIndex_NoI(t2, i) == t2

\* the index t2 + i the match relation (i, t2) reads from email_data
MatchIndex(t2, i) == t2 + i

\* PatternMatcher, second block: the relation for one (i, t2)
MatchRelation(email_data_, pattern, selector, i, t2) ==
  At(selector, t2) * (At(email_data_, MatchIndex(t2, i)) - At(pattern, i)) = 0

MatchConstraints(email_data_, pattern, selector, maxLen, patternLen) ==
  \A i \in 0..(patternLen - 1) :
    \A t2 \in 0..(VALID_POSITIONS(maxLen, patternLen) - 1) :
       MatchRelation(email_data_, pattern, selector, i, t2)

\* template PatternMatcher(MAX_EMAIL_LEN, PATTERN_LEN): all its constraints
PatternMatcher(email_data_, pattern, selector, maxLen, patternLen) ==
  /\ SelectorConstraints(selector, maxLen, patternLen)
  /\ MatchConstraints(email_data_, pattern, selector, maxLen, patternLen)

\* EmailHeaderVerifier, block 1
HashVerification(email_hash_, email_data_) ==
  /\ SequentialPoseidonHashOK(email_data_, MAX_EMAIL_LEN, CHUNK_COUNT)
  /\ SequentialPoseidonHash(email_data_, MAX_EMAIL_LEN, CHUNK_COUNT) = email_hash_

\* template EmailHeaderVerifier(MAX_EMAIL_LEN): the whole constraint system
EmailHeaderVerifier(hash_, data_, fb_, tb_, gb_, fs_, ts_, ds_) ==
  /\ HashVerification(hash_, data_)
  /\ PatternMatcher(data_, fb_, fs_, MAX_EMAIL_LEN, FROM_LEN)
  /\ PatternMatcher(data_, tb_, ts_, MAX_EMAIL_LEN, TO_LEN)
  /\ PatternMatcher(data_, gb_, ds_, MAX_EMAIL_LEN, DOMAIN_LEN)

\* the input signals the circuit declares, with their lengths
CircuitInputs ==
  [email_hash |-> 1,
   email_data |-> MAX_EMAIL_LEN,
   from_header_bytes |-> FROM_LEN,
   to_header_bytes |-> TO_LEN,
   gmail_domain_bytes |-> DOMAIN_LEN,
   from_selector |-> MAX_EMAIL_LEN,
   to_selector |-> MAX_EMAIL_LEN,
   domain_selector |-> MAX_EMAIL_LEN]

\* ------------------------------------------------------------------- state
VARIABLES
  bytes,              \* generateProof: the bytes read from the .eml file
  bpc,                \* position inside buildCircuitInput / generateWitness
  eml,                \* the truncated, zero-padded buffer
  idx_from,
  idx_to,
  idx_atg,
  h,                  \* running commitment
  off,                \* offset of the next chunk to hash
  poseidon_calls,     \* number of poseidon([..]) calls made so far
  input,              \* the object buildCircuitInput returns
  error,              \* the message of the thrown Error, "" when none
  email_hash,         \* the circuit's input signals
  email_data,
  from_header_bytes,
  to_header_bytes,
  gmail_domain_bytes,
  from_selector,
  to_selector,
  domain_selector,
  cpc,                \* which block of the circuit is evaluated next
  oh_pattern,         \* a call of oneHot: the pattern the selector is for
  oh_pos,             \* ... its argument pos
  oh_out,             \* ... the array it returned
  oh_pc,              \* ... "call" before, "returned" after
  emailFile,          \* EmailPage: the useState values
  isGenerating,
  proofResult,
  pageError,          \* the page's error state, "" for null
  progress,
  isRedirecting,
  localStorage,       \* the item 'selfUserDefinedData'
  redirectTimer,      \* is the setTimeout of line 94 pending
  route,              \* the route the router shows
  gpc,                \* the await generateProof is suspended at, "idle" when none
  callFile,           \* the emailFile the running generateProof closed over
  steps,              \* the steps the running generateProof has started
  witness,            \* what generateWitness resolved with
  first_result,       \* per file content, how the first build of it settled
  identities,         \* NULLIDRegistry: the storage of the contract
  ensToIdentifier,
  allIdentifiers,
  creator,            \* per identifier, the msg.sender of IdentityCreated
  lastTx,             \* the last transaction: function, sender, outcome
  walletState,        \* useWallet: the useState values
  isChecking,
  isConnecting,
  userDisconnected,
  walletError,        \* the hook's error state, "" for null
  ethAccounts,        \* the account window.ethereum exposes, "" when none
  requests,           \* the window.ethereum.request calls in flight
  tasks,              \* the background enrichment tasks in flight
  effect_due,         \* a dependency of the effect changed: it runs again
  listening,          \* the effect has registered the two handlers
  disconnect_called,  \* disconnectWallet was called, connectWallet not since
  reported            \* the account of the last accountsChanged still in force

builderVars ==
  <<bytes, bpc, eml, idx_from, idx_to, idx_atg, h, off, poseidon_calls,
    input, error>>

circuitVars ==
  <<email_hash, email_data, from_header_bytes, to_header_bytes,
    gmail_domain_bytes, from_selector, to_selector, domain_selector, cpc>>

oneHotVars == <<oh_pattern, oh_pos, oh_out, oh_pc>>

pageVars ==
  <<emailFile, isGenerating, proofResult, pageError, progress, isRedirecting,
    localStorage, redirectTimer, route, gpc, callFile, steps, witness,
    first_result>>

registryVars ==
  <<identities, ensToIdentifier, allIdentifiers, creator, lastTx>>

walletVars ==
  <<walletState, isChecking, isConnecting, userDisconnected, walletError,
    ethAccounts, requests, tasks, effect_due, listening, disconnect_called,
    reported>>

vars ==
  <<builderVars, circuitVars, oneHotVars, pageVars, registryVars, walletVars>>

NoInput == [none |-> <<>>]

\* ---------------------------------------------------------- input families
Tokens == {fromStr, toStr, atgStr, <<120>>, <<0>>, <<255>>}

RECURSIVE TokenSeqs(_)
\* every concatenation of at most n tokens
TokenSeqs(n) ==
  IF n = 0 THEN {<<>>}
  ELSE LET prev == TokenSeqs(n - 1)
       IN  prev \cup {s \o t : s \in prev, t \in Tokens}

RawInputs == TokenSeqs(MaxTokens)

BuilderIdle ==
  /\ bytes = <<>>
  /\ bpc = "idle"
  /\ eml = <<>>
  /\ idx_from = -1
  /\ idx_to = -1
  /\ idx_atg = -1
  /\ h = <<>>
  /\ off = 0
  /\ poseidon_calls = 0
  /\ input = NoInput
  /\ error = ""

CircuitIdle ==
  /\ email_hash = <<>>
  /\ email_data = <<>>
  /\ from_header_bytes = <<>>
  /\ to_header_bytes = <<>>
  /\ gmail_domain_bytes = <<>>
  /\ from_selector = <<>>
  /\ to_selector = <<>>
  /\ domain_selector = <<>>
  /\ cpc = "idle"

\* ------------------------------------------------------------ the registry
\* strings are the sequences of their bytes; the empty string is <<>>
Accounts == {"alice", "bob"}

\* the accounts that call createIdentity; the others only call the updates
Creators == {"alice"}

Identifiers == {<<>>, <<105>>, <<106>>}

EnsNames == {<<>>, <<97>>, <<98>>}

TextValue == <<118>>

TrueString == <<116, 114, 117, 101>>

\* the values a string argument for "age" or "ofacStatus" is drawn from:
\* "", "/", "0", "1", "2", "10"
NumericStrings == {<<>>, <<47>>, <<48>>, <<49>>, <<50>>, <<49, 48>>}

\* the values a uint8 argument is drawn from
Uint8Values == {0, 1, 2}

ASCII_ZERO == 48

BLOCK_TIMESTAMP == 1

\* the default value of a mapping entry
EmptyIdentity ==
  [mainENSId |-> <<>>, connectedEmail |-> <<>>, organization |-> <<>>,
   isHuman |-> FALSE, age |-> 0, ofacStatus |-> 0, publicInput |-> <<>>,
   proof |-> <<>>, timestamp |-> 0, exists |-> FALSE]

NoTx == [fn |-> "", sender |-> "", outcome |-> ""]

RegistryIdle ==
  /\ identities = [i \in Identifiers |-> EmptyIdentity]
  /\ ensToIdentifier = [e \in EnsNames |-> <<>>]
  /\ allIdentifiers = <<>>
  /\ creator = [i \in Identifiers |-> ""]
  /\ lastTx = NoTx

\* null, for an address, for the chain id, and for provider and signer
NoAddress == ""

NoChain == 0

NoObject == ""

\* the wallet state of a hook that is not connected (lines 16-23, 101-108)
Disconnected ==
  [isConnected |-> FALSE, address |-> NoAddress, balance |-> NoObject,
   chainId |-> NoChain, provider |-> NoObject, signer |-> NoObject]

WalletIdle ==
  /\ walletState = Disconnected
  /\ isChecking = TRUE
  /\ isConnecting = FALSE
  /\ userDisconnected = FALSE
  /\ walletError = ""
  /\ ethAccounts = NoAddress
  /\ requests = {}
  /\ tasks = {}
  /\ effect_due = TRUE
  /\ listening = FALSE
  /\ disconnect_called = FALSE
  /\ reported = NoAddress

OneHotIdle ==
  /\ oh_pattern = <<>>
  /\ oh_pos = -1
  /\ oh_out = <<>>
  /\ oh_pc = "idle"

\* a File: its name as characters and its content as bytes; null
NoFile == [name |-> <<>>, content |-> <<>>]

\* a proof object reduced to its publicSignals (the circuit's one public
\* signal is email_hash); null
NoProof == [publicSignals |-> <<>>]

PageIdle ==
  /\ emailFile = NoFile
  /\ isGenerating = FALSE
  /\ proofResult = NoProof
  /\ pageError = ""
  /\ progress = ""
  /\ isRedirecting = FALSE
  /\ localStorage = NoProof
  /\ redirectTimer = FALSE
  /\ route = "/email"
  /\ gpc = "idle"
  /\ callFile = NoFile
  /\ steps = <<>>
  /\ witness = NoInput
  /\ first_result = <<>>

\* the variables of the components a specification leaves alone
OutsideBuilder ==
  <<circuitVars, oneHotVars, pageVars, registryVars, walletVars>>

OutsideCircuit ==
  <<builderVars, oneHotVars, pageVars, registryVars, walletVars>>

OutsideOneHot ==
  <<builderVars, circuitVars, pageVars, registryVars, walletVars>>

OutsidePage ==
  <<builderVars, circuitVars, oneHotVars, registryVars, walletVars>>

OutsideRegistry ==
  <<builderVars, circuitVars, oneHotVars, pageVars, walletVars>>

OutsideWallet ==
  <<builderVars, circuitVars, oneHotVars, pageVars, registryVars>>

\* ------------------------------------------- buildCircuitInput, step by step
\* the throw condition with && for ||
LiteralsMissing_All(i_from, i_to, i_atg) == i_from < 0 /\ i_to < 0 /\ i_atg < 0

\* idx_from < 0 || idx_to < 0 || idx_atg < 0
LiteralsMissing(i_from, i_to, i_atg) == i_from < 0 \/ i_to < 0 \/ i_atg < 0

\* one round of the loop body: poseidon([F.e(h), F.e(pack31LE(slice))])
HashStep(acc, buf, offset) ==
  Poseidon(acc, pack31LE(Slice(buf, offset, offset + ChunkBytes)))

RECURSIVE HashLoop(_, _, _)
\* the loop of lines 130-135 run from offset to the end: the final h
HashLoop(acc, buf, offset) ==
  IF offset < MAX
    THEN HashLoop(HashStep(acc, buf, offset), buf, offset + ChunkBytes)
    ELSE acc

\* lines 108-112: slice, pad, Buffer.from
BuildPad ==
  /\ bpc = "pad"
  /\ eml' = PadTruncate(bytes)
  /\ bpc' = "search"
  /\ UNCHANGED <<bytes, idx_from, idx_to, idx_atg, h, off, poseidon_calls,
                 input, error>>
  /\ UNCHANGED OutsideBuilder

\* h declared outside the function: the digest of an earlier call is kept
BuildSearch_KeepsDigest ==
  /\ bpc = "search"
  /\ idx_from' = indexOf(eml, fromStr)
  /\ idx_to' = indexOf(eml, toStr)
  /\ idx_atg' = indexOf(eml, atgStr)
  /\ IF LiteralsMissing(idx_from', idx_to', idx_atg')
       THEN /\ bpc' = "thrown"
            /\ error' = "Required literals not found in .eml (need From:, To:, and @gmail.com)"
            /\ UNCHANGED <<h, off>>
       ELSE /\ bpc' = "hash"
            /\ h' = IF h = <<>> THEN ZeroDigest ELSE h
            /\ off' = 0
            /\ UNCHANGED error
  /\ UNCHANGED <<bytes, eml, poseidon_calls, input>>
  /\ UNCHANGED OutsideBuilder

\* the search made over the raw input instead of the padded buffer
BuildSearch_RawInput ==
  /\ bpc = "search"
  /\ idx_from' = indexOf(bytes, fromStr)
  /\ idx_to' = indexOf(bytes, toStr)
  /\ idx_atg' = indexOf(bytes, atgStr)
  /\ IF LiteralsMissing(idx_from', idx_to', idx_atg')
       THEN /\ bpc' = "thrown"
            /\ error' = "Required literals not found in .eml (need From:, To:, and @gmail.com)"
            /\ UNCHANGED <<h, off>>
       ELSE /\ bpc' = "hash"
            /\ h' = ZeroDigest
            /\ off' = 0
            /\ UNCHANGED error
  /\ UNCHANGED <<bytes, eml, poseidon_calls, input>>
  /\ UNCHANGED OutsideBuilder

\* lines 114-124: the three indexOf calls and the throw
BuildSearch ==
  /\ bpc = "search"
  /\ idx_from' = indexOf(eml, fromStr)
  /\ idx_to' = indexOf(eml, toStr)
  /\ idx_atg' = indexOf(eml, atgStr)
  /\ IF LiteralsMissing(idx_from', idx_to', idx_atg')
       THEN /\ bpc' = "thrown"
            /\ error' = "Required literals not found in .eml (need From:, To:, and @gmail.com)"
            /\ UNCHANGED <<h, off>>
       ELSE /\ bpc' = "hash"
            /\ h' = ZeroDigest
            /\ off' = 0
            /\ UNCHANGED error
  /\ UNCHANGED <<bytes, eml, poseidon_calls, input>>
  /\ UNCHANGED OutsideBuilder

\* lines 131-135: one round of the hashing loop
BuildHashChunk ==
  /\ bpc = "hash"
  /\ off < MAX
  /\ h' = HashStep(h, eml, off)
  /\ off' = off + ChunkBytes
  /\ poseidon_calls' = poseidon_calls + 1
  /\ UNCHANGED <<bytes, bpc, eml, idx_from, idx_to, idx_atg, input, error>>
  /\ UNCHANGED OutsideBuilder

\* lines 137-148: the object returned
BuildReturn ==
  /\ bpc = "hash"
  /\ ~(off < MAX)
  /\ input' = [eml_commitment |-> digestToString(h),
               eml |-> mapToString(eml),
               from_bytes |-> mapToString(strBytesAscii(fromStr)),
               to_bytes |-> mapToString(strBytesAscii(toStr)),
               atg_bytes |-> mapToString(strBytesAscii(atgStr)),
               sel_from |-> mapToString(oneHot(MAX, idx_from)),
               sel_to |-> mapToString(oneHot(MAX, idx_to)),
               sel_atg |-> mapToString(oneHot(MAX, idx_atg))]
  /\ bpc' = "built"
  /\ UNCHANGED <<bytes, eml, idx_from, idx_to, idx_atg, h, off,
                 poseidon_calls, error>>
  /\ UNCHANGED OutsideBuilder

Init ==
  /\ bytes \in RawInputs
  /\ bpc = "pad"
  /\ eml = <<>>
  /\ idx_from = -1
  /\ idx_to = -1
  /\ idx_atg = -1
  /\ h = <<>>
  /\ off = 0
  /\ poseidon_calls = 0
  /\ input = NoInput
  /\ error = ""
  /\ CircuitIdle
  /\ OneHotIdle
  /\ PageIdle
  /\ RegistryIdle
  /\ WalletIdle

Next ==
  \/ BuildPad
  \/ BuildSearch
  \/ BuildHashChunk
  \/ BuildReturn

Spec == Init /\ [][Next]_vars

\* ------------------------------------------------ the circuit and a prover
\* what a prover may submit as email_data: padded buffers, and the same with
\* one element pushed out of the byte range
ProverTokens == {fromStr, toStr, atgStr, <<120>>}

RECURSIVE ProverTokenSeqs(_)
ProverTokenSeqs(n) ==
  IF n = 0 THEN {<<>>}
  ELSE LET prev == ProverTokenSeqs(n - 1)
       IN  prev \cup {s \o t : s \in prev, t \in ProverTokens}

ProverBuffers == {PadTruncate(r) : r \in ProverTokenSeqs(MaxProverTokens)}

ProverData ==
  ProverBuffers
    \cup {[b EXCEPT ![k] = @ + BYTE_BASE] : b \in ProverBuffers, k \in 1..MaxLen}
    \cup {[b EXCEPT ![k] = 0 - 1] : b \in ProverBuffers, k \in {1, MaxLen}}

RECURSIVE DigestOf(_, _, _)
\* a digest over the first n chunks of buf, little- or big-endian chunks
DigestOf(buf, n, le) ==
  IF n = 0 THEN ZeroDigest
  ELSE LET c == n - 1
           byteAt(k) == IF c * ChunkBytes + k < Len(buf)
                          THEN buf[c * ChunkBytes + k + 1] ELSE 0
           val == SumTo([k \in 0..(ChunkBytes - 1) |->
                           byteAt(k) * Pow(BYTE_BASE,
                              IF le THEN k ELSE ChunkBytes - 1 - k)], ChunkBytes)
       IN  Append(DigestOf(buf, n - 1, le), val)

\* what a prover may submit as email_hash for a given email_data
HashCandidates(data) ==
  {DigestOf(data, n, TRUE) : n \in (CHUNK_COUNT - 1)..(CHUNK_COUNT + 1)}
    \cup {DigestOf(data, CHUNK_COUNT, FALSE)}
    \cup {DigestOf([i \in 1..Len(data) |-> 0], CHUNK_COUNT, TRUE)}

\* what a prover may submit as a selector: a boolean vector with at most
\* MaxOnes ones, or a vector whose non-zero entries are not boolean (a single
\* 2 or -1, or a 2 and a -1, which add up to 1)
BooleanSelectors ==
  {[i \in 1..MAX_EMAIL_LEN |-> IF i \in S THEN 1 ELSE 0] :
     S \in {T \in SUBSET (1..MAX_EMAIL_LEN) : Cardinality(T) <= MaxOnes}}

NonBooleanSelectors ==
  {[i \in 1..MAX_EMAIL_LEN |-> IF i = p THEN v ELSE 0] :
     p \in 1..MAX_EMAIL_LEN, v \in {0 - 1, 2}}
    \cup {[i \in 1..MAX_EMAIL_LEN |-> IF i = p THEN 2 ELSE IF i = q THEN 0 - 1 ELSE 0] :
            p \in 1..MAX_EMAIL_LEN, q \in 1..MAX_EMAIL_LEN}

SelectorCandidates == BooleanSelectors \cup NonBooleanSelectors

\* what a prover may submit as a pattern signal: the literal, or the bytes
\* that happen to open the buffer
PatternCandidates(data, literal) ==
  {literal, Slice(data, 0, Len(literal))}

InitProver ==
  /\ BuilderIdle
  /\ email_data \in ProverData
  /\ email_hash \in HashCandidates(email_data)
  /\ from_header_bytes = <<>>
  /\ to_header_bytes = <<>>
  /\ gmail_domain_bytes = <<>>
  /\ from_selector = <<>>
  /\ to_selector = <<>>
  /\ domain_selector = <<>>
  /\ cpc = "hash"
  /\ OneHotIdle
  /\ PageIdle
  /\ RegistryIdle
  /\ WalletIdle

\* EmailHeaderVerifier block 1 on the submitted email_hash, email_data
EvalHash ==
  /\ cpc = "hash"
  /\ cpc' = IF HashVerification(email_hash, email_data) THEN "from" ELSE "unsat"
  /\ UNCHANGED <<email_hash, email_data, from_header_bytes, to_header_bytes,
                 gmail_domain_bytes, from_selector, to_selector, domain_selector>>
  /\ UNCHANGED OutsideCircuit

\* block 2: the prover submits from_header_bytes, from_selector
EvalFrom ==
  /\ cpc = "from"
  /\ \E pat \in PatternCandidates(email_data, fromStr), sel \in SelectorCandidates :
       /\ from_header_bytes' = pat
       /\ from_selector' = sel
       /\ cpc' = IF PatternMatcher(email_data, pat, sel, MAX_EMAIL_LEN, FROM_LEN)
                   THEN "to" ELSE "unsat"
  /\ UNCHANGED <<email_hash, email_data, to_header_bytes, gmail_domain_bytes,
                 to_selector, domain_selector>>
  /\ UNCHANGED OutsideCircuit

\* block 3: the prover submits to_header_bytes, to_selector
EvalTo ==
  /\ cpc = "to"
  /\ \E pat \in PatternCandidates(email_data, toStr), sel \in SelectorCandidates :
       /\ to_header_bytes' = pat
       /\ to_selector' = sel
       /\ cpc' = IF PatternMatcher(email_data, pat, sel, MAX_EMAIL_LEN, TO_LEN)
                   THEN "domain" ELSE "unsat"
  /\ UNCHANGED <<email_hash, email_data, from_header_bytes, gmail_domain_bytes,
                 from_selector, domain_selector>>
  /\ UNCHANGED OutsideCircuit

\* block 4: the prover submits gmail_domain_bytes, domain_selector
EvalDomain ==
  /\ cpc = "domain"
  /\ \E pat \in PatternCandidates(email_data, atgStr), sel \in SelectorCandidates :
       /\ gmail_domain_bytes' = pat
       /\ domain_selector' = sel
       /\ cpc' = IF PatternMatcher(email_data, pat, sel, MAX_EMAIL_LEN, DOMAIN_LEN)
                   THEN "sat" ELSE "unsat"
  /\ UNCHANGED <<email_hash, email_data, from_header_bytes, to_header_bytes,
                 from_selector, to_selector>>
  /\ UNCHANGED OutsideCircuit

NextProver ==
  \/ EvalHash
  \/ EvalFrom
  \/ EvalTo
  \/ EvalDomain

SpecProver == InitProver /\ [][NextProver]_vars

\* ------------------------------------------------------ oneHot on its own
\* the offsets oneHot may be called with: on both sides of the buffer
OneHotOffsets == (0 - MaxLen)..(2 * MaxLen)

InitOneHot ==
  /\ BuilderIdle
  /\ CircuitIdle
  /\ oh_pattern \in {fromStr, toStr, atgStr}
  /\ oh_pos \in OneHotOffsets
  /\ oh_out = <<>>
  /\ oh_pc = "call"
  /\ PageIdle
  /\ RegistryIdle
  /\ WalletIdle

\* lines 143-145 for one pattern: oneHot(MAX, idx).map(n => n.toString())
CallOneHot ==
  /\ oh_pc = "call"
  /\ oh_out' = mapToString(oneHot(MAX, oh_pos))
  /\ oh_pc' = "returned"
  /\ UNCHANGED <<oh_pattern, oh_pos>>
  /\ UNCHANGED OutsideOneHot

NextOneHot == CallOneHot

SpecOneHot == InitOneHot /\ [][NextOneHot]_vars

\* ---------------------------------------------------------- the email page
\* file.name.endsWith(suffix)
EndsWith(str, suffix) ==
  /\ Len(str) >= Len(suffix)
  /\ SubSeq(str, Len(str) - Len(suffix) + 1, Len(str)) = suffix

EmlSuffix == <<".", "e", "m", "l">>

\* the files a user may pick: three mails and a file that is not an .eml
MailA == fromStr \o toStr \o atgStr

MailB == <<120>> \o fromStr \o toStr \o atgStr

MailNoTo == fromStr \o atgStr \o <<120>>

Files ==
  {[name |-> <<"a">> \o EmlSuffix, content |-> MailA],
   [name |-> <<"b">> \o EmlSuffix, content |-> MailB],
   [name |-> <<"c">> \o EmlSuffix, content |-> MailNoTo],
   [name |-> <<"e", "m", "l", ".", "t", "x", "t">>, content |-> MailA]}

\* the messages a rejected step may carry; "" is an error without a message
StepErrors == {"Failed to load witness calculator", ""}

\* a message-less error shown as it was thrown
ErrorText_Raw(message) == message

\* err.message || 'Failed to generate proof'
ErrorText(message) == IF message = "" THEN "Failed to generate proof" ELSE message

InitPage ==
  /\ BuilderIdle
  /\ CircuitIdle
  /\ OneHotIdle
  /\ PageIdle
  /\ RegistryIdle
  /\ WalletIdle

\* lines 37-49
handleFileSelect ==
  /\ route = "/email"
  /\ ~isRedirecting
  /\ \E file \in Files :
       IF EndsWith(file.name, EmlSuffix)
         THEN /\ emailFile' = file
              /\ pageError' = ""
              /\ proofResult' = NoProof
         ELSE /\ pageError' = "Please select a .eml file"
              /\ emailFile' = NoFile
              /\ UNCHANGED proofResult
  /\ UNCHANGED <<isGenerating, progress, isRedirecting, localStorage,
                 redirectTimer, route, gpc, callFile, steps, witness,
                 first_result>>
  /\ UNCHANGED OutsidePage

\* lines 319-323: the "Remove file" button
RemoveFile ==
  /\ route = "/email"
  /\ ~isRedirecting
  /\ emailFile # NoFile
  /\ emailFile' = NoFile
  /\ UNCHANGED <<isGenerating, proofResult, pageError, progress, isRedirecting,
                 localStorage, redirectTimer, route, gpc, callFile, steps,
                 witness, first_result>>
  /\ UNCHANGED OutsidePage

\* lines 51-60: the click on the generate button up to the first await
generateProof ==
  /\ route = "/email"
  /\ ~isRedirecting
  /\ emailFile # NoFile
  /\ ~isGenerating
  /\ isGenerating' = TRUE
  /\ pageError' = ""
  /\ progress' = "Reading email file..."
  /\ gpc' = "read"
  /\ callFile' = emailFile
  /\ steps' = <<>>
  /\ witness' = NoInput
  /\ UNCHANGED <<emailFile, proofResult, isRedirecting, localStorage,
                 redirectTimer, route, first_result>>
  /\ UNCHANGED OutsidePage

\* lines 98-104: catch and finally
CatchFinally(message) ==
  /\ pageError' = ErrorText(message)
  /\ isGenerating' = FALSE
  /\ progress' = ""
  /\ gpc' = "idle"
  /\ UNCHANGED <<emailFile, proofResult, isRedirecting, localStorage,
                 redirectTimer, route, callFile>>

\* how a build settled: the object returned, or the message thrown
NoResult == [input |-> NoInput, error |-> ""]

\* the record of first builds with one more build entered
Recorded(seen, content, result) ==
  IF \E i \in 1..Len(seen) : seen[i].content = content
    THEN seen
    ELSE Append(seen, [content |-> content, result |-> result])

\* lines 60-66: arrayBuffer() settles; buildCircuitInput is called
ReadSettles ==
  /\ gpc = "read"
  /\ \/ /\ bytes' = callFile.content
        /\ bpc' = "pad"
        /\ poseidon_calls' = 0
        /\ input' = NoInput
        /\ error' = ""
        /\ progress' = "Building circuit input..."
        /\ gpc' = "build"
        /\ steps' = Append(steps, "build")
        /\ UNCHANGED <<eml, idx_from, idx_to, idx_atg, h, off>>
        /\ UNCHANGED <<emailFile, isGenerating, proofResult, pageError,
                       isRedirecting, localStorage, redirectTimer, route,
                       callFile, witness>>
     \/ /\ \E message \in StepErrors : CatchFinally(message)
        /\ UNCHANGED <<steps, witness>>
        /\ UNCHANGED builderVars
  /\ UNCHANGED first_result
  /\ UNCHANGED <<circuitVars, oneHotVars, registryVars, walletVars>>

\* a thrown build taken for a finished one
BuildSucceeded_Any(pc) == pc \in {"built", "thrown"}

\* a thrown build does not reach the next step
BuildSucceeded(pc) == pc = "built"

\* lines 66-71: buildCircuitInput settles; generateWitness is called
BuildSettles ==
  /\ gpc = "build"
  /\ bpc \in {"built", "thrown"}
  /\ IF BuildSucceeded(bpc)
       THEN /\ progress' = "Generating witness..."
            /\ gpc' = "witness"
            /\ steps' = Append(steps, "witness")
            /\ UNCHANGED <<emailFile, isGenerating, proofResult, pageError,
                           isRedirecting, localStorage, redirectTimer, route,
                           callFile>>
       ELSE /\ CatchFinally(error)
            /\ UNCHANGED steps
  /\ first_result' = Recorded(first_result, bytes, [input |-> input, error |-> error])
  /\ UNCHANGED witness
  /\ UNCHANGED OutsidePage

\* lines 71-76: generateWitness settles; generateSnarkProof is called
WitnessSettles ==
  /\ gpc = "witness"
  /\ \/ /\ witness' = input
        /\ progress' = "Generating ZK proof..."
        /\ gpc' = "prove"
        /\ steps' = Append(steps, "prove")
        /\ UNCHANGED <<emailFile, isGenerating, proofResult, pageError,
                       isRedirecting, localStorage, redirectTimer, route,
                       callFile>>
     \/ /\ \E message \in StepErrors : CatchFinally(message)
        /\ UNCHANGED <<steps, witness>>
  /\ UNCHANGED first_result
  /\ UNCHANGED OutsidePage

\* lines 76-104: generateSnarkProof settles; the rest of try, and finally
ProveSettles ==
  /\ gpc = "prove"
  /\ \/ /\ proofResult' =
             [publicSignals |-> digestFromString(witness.eml_commitment)]
        /\ localStorage' = proofResult'
        /\ isRedirecting' = TRUE
        /\ redirectTimer' = TRUE
        /\ isGenerating' = FALSE
        /\ progress' = ""
        /\ gpc' = "idle"
        /\ UNCHANGED <<emailFile, pageError, route, callFile>>
     \/ \E message \in StepErrors : CatchFinally(message)
  /\ UNCHANGED <<steps, witness, first_result>>
  /\ UNCHANGED OutsidePage

\* lines 94-96: the timer fires, router.push('/')
RedirectFires ==
  /\ redirectTimer
  /\ redirectTimer' = FALSE
  /\ route' = "/"
  /\ UNCHANGED <<emailFile, isGenerating, proofResult, pageError, progress,
                 isRedirecting, localStorage, gpc, callFile, steps, witness,
                 first_result>>
  /\ UNCHANGED OutsidePage

NextPage ==
  \/ handleFileSelect
  \/ RemoveFile
  \/ generateProof
  \/ ReadSettles
  \/ BuildPad
  \/ BuildSearch
  \/ BuildHashChunk
  \/ BuildReturn
  \/ BuildSettles
  \/ WitnessSettles
  \/ ProveSettles
  \/ RedirectFires

SpecPage == InitPage /\ [][NextPage]_vars

\* --------------------------------------------------- NULLIDRegistry
\* the storage as one value
Storage ==
  [identities |-> identities,
   ensToIdentifier |-> ensToIdentifier,
   allIdentifiers |-> allIdentifiers]

\* a call that reverted leaves the storage as it was
Reverted(st, reason) == [st |-> st, revert |-> reason]

Returned(st) == [st |-> st, revert |-> ""]

\* modifier onlyIdentityOwner: require(identities[identifier].exists)
onlyIdentityOwner(st, identifier) == st.identities[identifier].exists

\* a modifier validAge that lets every value through
validAge_Any(age) == TRUE

\* modifier validAge: require(age == 0 || age == 1)
validAge(age) == age = 0 \/ age = 1

\* modifier validOFAC
validOFAC(ofac) == ofac = 0 \/ ofac = 1

\* the arguments of createIdentity and updateIdentity after the identifier
IdentityArgs ==
  [ensId : EnsNames, email : {TextValue}, organization : {TextValue},
   isHuman : {TRUE}, age : Uint8Values, ofacStatus : Uint8Values,
   publicInput : {TextValue}, proof : {TextValue}]

\* createIdentity without the require on exists
createIdentity_NoExistsCheck(st, identifier, d) ==
  IF ~validAge(d.age) THEN Reverted(st, "Age must be 0 or 1")
  ELSE IF ~validOFAC(d.ofacStatus) THEN Reverted(st, "OFAC status must be 0 or 1")
  ELSE IF ~(Len(identifier) > 0) THEN Reverted(st, "Identifier cannot be empty")
  ELSE IF ~(Len(d.ensId) > 0) THEN Reverted(st, "ENS ID cannot be empty")
  ELSE Returned(
    [identities |->
       [st.identities EXCEPT ![identifier] =
          [mainENSId |-> d.ensId, connectedEmail |-> d.email,
           organization |-> d.organization, isHuman |-> d.isHuman,
           age |-> d.age, ofacStatus |-> d.ofacStatus,
           publicInput |-> d.publicInput, proof |-> d.proof,
           timestamp |-> BLOCK_TIMESTAMP, exists |-> TRUE]],
     ensToIdentifier |-> [st.ensToIdentifier EXCEPT ![d.ensId] = identifier],
     allIdentifiers |-> Append(st.allIdentifiers, identifier)])

\* lines 87-119
createIdentity(st, identifier, d) ==
  IF ~validAge(d.age) THEN Reverted(st, "Age must be 0 or 1")
  ELSE IF ~validOFAC(d.ofacStatus) THEN Reverted(st, "OFAC status must be 0 or 1")
  ELSE IF st.identities[identifier].exists THEN Reverted(st, "Identity already exists")
  ELSE IF ~(Len(identifier) > 0) THEN Reverted(st, "Identifier cannot be empty")
  ELSE IF ~(Len(d.ensId) > 0) THEN Reverted(st, "ENS ID cannot be empty")
  ELSE Returned(
    [identities |->
       [st.identities EXCEPT ![identifier] =
          [mainENSId |-> d.ensId, connectedEmail |-> d.email,
           organization |-> d.organization, isHuman |-> d.isHuman,
           age |-> d.age, ofacStatus |-> d.ofacStatus,
           publicInput |-> d.publicInput, proof |-> d.proof,
           timestamp |-> BLOCK_TIMESTAMP, exists |-> TRUE]],
     ensToIdentifier |-> [st.ensToIdentifier EXCEPT ![d.ensId] = identifier],
     allIdentifiers |-> Append(st.allIdentifiers, identifier)])

\* lines 133-163
updateIdentity(st, identifier, d) ==
  IF ~validAge(d.age) THEN Reverted(st, "Age must be 0 or 1")
  ELSE IF ~validOFAC(d.ofacStatus) THEN Reverted(st, "OFAC status must be 0 or 1")
  ELSE IF ~onlyIdentityOwner(st, identifier) THEN Reverted(st, "Identity does not exist")
  ELSE
    LET identity == st.identities[identifier]
        index == IF identity.mainENSId # d.ensId
                   THEN [[st.ensToIdentifier EXCEPT ![identity.mainENSId] = <<>>]
                           EXCEPT ![d.ensId] = identifier]
                   ELSE st.ensToIdentifier
    IN  Returned(
          [identities |->
             [st.identities EXCEPT ![identifier] =
                [identity EXCEPT !.mainENSId = d.ensId,
                                 !.connectedEmail = d.email,
                                 !.organization = d.organization,
                                 !.isHuman = d.isHuman,
                                 !.age = d.age,
                                 !.ofacStatus = d.ofacStatus,
                                 !.publicInput = d.publicInput,
                                 !.proof = d.proof,
                                 !.timestamp = BLOCK_TIMESTAMP]],
           ensToIdentifier |-> index,
           allIdentifiers |-> st.allIdentifiers])

\* the storage with one field of one identity written, and the timestamp
WithField(st, identifier, identity) ==
  [st EXCEPT !.identities[identifier] =
     [identity EXCEPT !.timestamp = BLOCK_TIMESTAMP]]

\* uint8(bytes(newValue)[0]) - 48 in checked arithmetic: the difference, or
\* -1 for the panic on underflow
CharToUint8(newValue) ==
  IF newValue[1] < ASCII_ZERO THEN -1 ELSE newValue[1] - ASCII_ZERO

\* updateField on "mainENSId" without the delete of the old index entry
updateField_NoDelete(st, identifier, fieldName, newValue) ==
  IF ~onlyIdentityOwner(st, identifier) THEN Reverted(st, "Identity does not exist")
  ELSE IF fieldName = "mainENSId"
    THEN Returned(
           [WithField(st, identifier,
                      [st.identities[identifier] EXCEPT !.mainENSId = newValue])
              EXCEPT !.ensToIdentifier =
                [st.ensToIdentifier EXCEPT ![newValue] = identifier]])
    ELSE Reverted(st, "Invalid field name")

\* lines 171-208
updateField(st, identifier, fieldName, newValue) ==
  IF ~onlyIdentityOwner(st, identifier) THEN Reverted(st, "Identity does not exist")
  ELSE
    LET identity == st.identities[identifier]
    IN  CASE fieldName = "mainENSId" ->
               Returned(
                 [WithField(st, identifier, [identity EXCEPT !.mainENSId = newValue])
                    EXCEPT !.ensToIdentifier =
                      [[st.ensToIdentifier EXCEPT ![identity.mainENSId] = <<>>]
                         EXCEPT ![newValue] = identifier]])
          [] fieldName = "connectedEmail" ->
               Returned(WithField(st, identifier, [identity EXCEPT !.connectedEmail = newValue]))
          [] fieldName = "organization" ->
               Returned(WithField(st, identifier, [identity EXCEPT !.organization = newValue]))
          [] fieldName = "isHuman" ->
               Returned(WithField(st, identifier, [identity EXCEPT !.isHuman = (newValue = TrueString)]))
          [] fieldName = "age" ->
               IF Len(newValue) # 1 THEN Reverted(st, "Age value must be single character")
               ELSE IF CharToUint8(newValue) < 0 THEN Reverted(st, "Panic(0x11)")
               ELSE IF ~(CharToUint8(newValue) = 0 \/ CharToUint8(newValue) = 1)
                       THEN Reverted(st, "Age must be 0 or 1")
               ELSE Returned(WithField(st, identifier, [identity EXCEPT !.age = CharToUint8(newValue)]))
          [] fieldName = "ofacStatus" ->
               IF Len(newValue) # 1 THEN Reverted(st, "OFAC value must be single character")
               ELSE IF CharToUint8(newValue) < 0 THEN Reverted(st, "Panic(0x11)")
               ELSE IF ~(CharToUint8(newValue) = 0 \/ CharToUint8(newValue) = 1)
                       THEN Reverted(st, "OFAC status must be 0 or 1")
               ELSE Returned(WithField(st, identifier, [identity EXCEPT !.ofacStatus = CharToUint8(newValue)]))
          [] fieldName = "publicInput" ->
               Returned(WithField(st, identifier, [identity EXCEPT !.publicInput = newValue]))
          [] fieldName = "proof" ->
               Returned(WithField(st, identifier, [identity EXCEPT !.proof = newValue]))
          [] OTHER -> Reverted(st, "Invalid field name")

\* lines 216-235
updateNumericField(st, identifier, fieldName, newValue) ==
  IF ~onlyIdentityOwner(st, identifier) THEN Reverted(st, "Identity does not exist")
  ELSE IF ~(newValue = 0 \/ newValue = 1) THEN Reverted(st, "Value must be 0 or 1")
  ELSE
    LET identity == st.identities[identifier]
    IN  CASE fieldName = "age" ->
               Returned(WithField(st, identifier, [identity EXCEPT !.age = newValue]))
          [] fieldName = "ofacStatus" ->
               Returned(WithField(st, identifier, [identity EXCEPT !.ofacStatus = newValue]))
          [] OTHER -> Reverted(st, "Invalid numeric field name")

\* the field names and the values updateField is called with
FieldNames ==
  {"mainENSId", "connectedEmail", "organization", "isHuman", "age",
   "ofacStatus", "publicInput", "proof", "nickname"}

FieldValues(fieldName) ==
  CASE fieldName = "mainENSId" -> EnsNames
    [] fieldName \in {"age", "ofacStatus"} -> NumericStrings
    [] fieldName = "isHuman" -> {TrueString}
    [] OTHER -> {TextValue}

NumericFieldNames == {"age", "ofacStatus", "isHuman"}

\* how a call ended: returned, reverted with Error(string), or with Panic
Outcome(r) ==
  IF r.revert = "" THEN "ok"
  ELSE IF r.revert = "Panic(0x11)" THEN "Panic" ELSE "Error"

\* a transaction: the storage the call ends with, and what remains of the call
Transact(fn, sender, r) ==
  /\ identities' = r.st.identities
  /\ ensToIdentifier' = r.st.ensToIdentifier
  /\ allIdentifiers' = r.st.allIdentifiers
  /\ lastTx' = [fn |-> fn, sender |-> sender, outcome |-> Outcome(r)]

InitRegistry ==
  /\ BuilderIdle
  /\ CircuitIdle
  /\ OneHotIdle
  /\ PageIdle
  /\ RegistryIdle
  /\ WalletIdle

CreateIdentity ==
  /\ \E sender \in Creators, identifier \in Identifiers, d \in IdentityArgs :
       LET r == createIdentity(Storage, identifier, d)
       IN  /\ Transact("createIdentity", sender, r)
           /\ creator' = IF r.revert = ""
                           THEN [creator EXCEPT ![identifier] = sender]
                           ELSE creator
  /\ UNCHANGED OutsideRegistry

UpdateIdentity ==
  /\ \E sender \in Accounts, identifier \in Identifiers, d \in IdentityArgs :
       Transact("updateIdentity", sender, updateIdentity(Storage, identifier, d))
  /\ UNCHANGED creator
  /\ UNCHANGED OutsideRegistry

UpdateField ==
  /\ \E sender \in Accounts, identifier \in Identifiers, fieldName \in FieldNames :
       \E newValue \in FieldValues(fieldName) :
          Transact("updateField", sender,
                   updateField(Storage, identifier, fieldName, newValue))
  /\ UNCHANGED creator
  /\ UNCHANGED OutsideRegistry

UpdateNumericField ==
  /\ \E sender \in Accounts, identifier \in Identifiers,
        fieldName \in NumericFieldNames, newValue \in Uint8Values :
       Transact("updateNumericField", sender,
                updateNumericField(Storage, identifier, fieldName, newValue))
  /\ UNCHANGED creator
  /\ UNCHANGED OutsideRegistry

NextRegistry ==
  \/ CreateIdentity
  \/ UpdateIdentity
  \/ UpdateField
  \/ UpdateNumericField

SpecRegistry == InitRegistry /\ [][NextRegistry]_vars

\* ------------------------------------------------------------ useWallet
\* The hook as the page app/verified uses it, with MetaMask installed. The
\* provider's events are delivered to the handlers of the current render.
\* Requests and tasks in flight are sets: two of the same kind, for the same
\* address, stand as one.

\* the accounts the wallet may expose
Addresses == {"0xA", "0xB"}

\* the chains the wallet may be on: mainnet and Sepolia
ChainIds == {1, 11155111}

\* the messages connectWallet may end with
ConnectErrors == {"No accounts found", "Failed to connect wallet"}

\* lines 60-67, 178-185, 252-259: the address at once, the rest as it was
Immediate(prev, a) ==
  [isConnected |-> TRUE, address |-> a, balance |-> prev.balance,
   chainId |-> prev.chainId, provider |-> prev.provider,
   signer |-> prev.signer]

\* lines 78-85, 196-203, 268-275, 295-302: what an enrichment task writes
Enriched(a, c) ==
  [isConnected |-> TRUE, address |-> a, balance |-> NoObject, chainId |-> c,
   provider |-> "BrowserProvider", signer |-> "JsonRpcSigner"]

\* line 322: the values among the effect's dependencies that change
EffectDeps(ws, ud) == <<ws.isConnected, ud, ws.address>>

\* a render with a changed dependency makes the effect run again
Rerender ==
  effect_due' =
    (effect_due \/
       EffectDeps(walletState', userDisconnected') #
         EffectDeps(walletState, userDisconnected))

\* a task of lines 71-91, 189-208, 261-279 or 288-306 is started
StartTask(by, a) == tasks' = tasks \cup {[by |-> by, address |-> a]}

\* verified/page.tsx: the loading screen, and the two buttons
ConnectOffered == ~isChecking /\ ~walletState.isConnected /\ ~isConnecting

DisconnectOffered == ~isChecking /\ walletState.isConnected

InitWallet ==
  /\ BuilderIdle
  /\ CircuitIdle
  /\ OneHotIdle
  /\ PageIdle
  /\ RegistryIdle
  /\ walletState = Disconnected
  /\ isChecking = TRUE
  /\ isConnecting = FALSE
  /\ userDisconnected = FALSE
  /\ walletError = ""
  /\ ethAccounts \in Addresses \cup {NoAddress}
  /\ requests = {}
  /\ tasks = {}
  /\ effect_due = TRUE
  /\ listening = FALSE
  /\ disconnect_called = FALSE
  /\ reported = NoAddress

\* lines 236-322 and 165-173: the effect runs; checkWalletConnection up to
\* its await
checkWalletConnection ==
  /\ effect_due
  /\ effect_due' = FALSE
  /\ listening' = TRUE
  /\ IF userDisconnected
       THEN /\ isChecking' = FALSE
            /\ UNCHANGED requests
       ELSE /\ isChecking' = TRUE
            /\ requests' = requests \cup {"eth_accounts"}
  /\ UNCHANGED <<walletState, isConnecting, userDisconnected, walletError,
                 ethAccounts, tasks, disconnect_called, reported>>
  /\ UNCHANGED OutsideWallet

\* lines 173-232: eth_accounts settles
CheckSettles ==
  /\ "eth_accounts" \in requests
  /\ requests' = requests \ {"eth_accounts"}
  /\ isChecking' = FALSE
  /\ \/ /\ ethAccounts # NoAddress
        /\ walletState' = Immediate(walletState, ethAccounts)
        /\ StartTask("checkWalletConnection", ethAccounts)
        /\ UNCHANGED reported
     \/ /\ walletState' = Disconnected
        /\ reported' = NoAddress
        /\ UNCHANGED tasks
  /\ UNCHANGED <<isConnecting, userDisconnected, walletError, ethAccounts,
                 listening, disconnect_called>>
  /\ Rerender
  /\ UNCHANGED OutsideWallet

\* lines 39-52: connectWallet up to its await
connectWallet ==
  /\ isConnecting' = TRUE
  /\ walletError' = ""
  /\ requests' = requests \cup {"eth_requestAccounts"}

\* verified/page.tsx 185-187: the Connect button
handleConnect ==
  /\ ConnectOffered
  /\ connectWallet
  /\ disconnect_called' = FALSE
  /\ UNCHANGED <<walletState, isChecking, userDisconnected, ethAccounts,
                 tasks, effect_due, listening, reported>>
  /\ UNCHANGED OutsideWallet

\* lines 54-96: eth_requestAccounts settles
ConnectSettles ==
  /\ "eth_requestAccounts" \in requests
  /\ requests' = requests \ {"eth_requestAccounts"}
  /\ isConnecting' = FALSE
  /\ \/ /\ ethAccounts # NoAddress
        /\ walletState' = Immediate(walletState, ethAccounts)
        /\ StartTask("connectWallet", ethAccounts)
        /\ UNCHANGED walletError
     \/ /\ walletError' \in ConnectErrors
        /\ UNCHANGED <<walletState, tasks>>
  /\ UNCHANGED <<isChecking, userDisconnected, ethAccounts, listening,
                 disconnect_called, reported>>
  /\ Rerender
  /\ UNCHANGED OutsideWallet

\* lines 100-115
disconnectWallet ==
  /\ walletState' = Disconnected
  /\ isConnecting' = FALSE
  /\ isChecking' = FALSE
  /\ userDisconnected' = TRUE
  /\ walletError' = ""
  /\ disconnect_called' = TRUE
  /\ reported' = NoAddress

\* verified/page.tsx 189-191: the Disconnect button
handleDisconnect ==
  /\ DisconnectOffered
  /\ disconnectWallet
  /\ UNCHANGED <<ethAccounts, requests, tasks, listening>>
  /\ Rerender
  /\ UNCHANGED OutsideWallet

\* lines 239-281: the wallet exposes another account, or none
handleAccountsChanged ==
  /\ listening
  /\ \E a \in (Addresses \cup {NoAddress}) \ {ethAccounts} :
       /\ ethAccounts' = a
       /\ IF a = NoAddress
            THEN /\ disconnectWallet
                 /\ UNCHANGED tasks
            ELSE IF userDisconnected
              THEN /\ reported' = NoAddress
                   /\ UNCHANGED <<walletState, isChecking, isConnecting,
                                  userDisconnected, walletError, tasks,
                                  disconnect_called>>
              ELSE /\ walletState' = Immediate(walletState, a)
                   /\ StartTask("handleAccountsChanged", a)
                   /\ reported' = a
                   /\ UNCHANGED <<isChecking, isConnecting, userDisconnected,
                                  walletError, disconnect_called>>
  /\ UNCHANGED <<requests, listening>>
  /\ Rerender
  /\ UNCHANGED OutsideWallet

\* the task started for whatever address the state holds
handleChainChanged_NoGuard ==
  /\ listening
  /\ ~userDisconnected
  /\ StartTask("handleChainChanged", walletState.address)
  /\ UNCHANGED <<walletState, isChecking, isConnecting, userDisconnected,
                 walletError, ethAccounts, requests, effect_due, listening,
                 disconnect_called, reported>>
  /\ UNCHANGED OutsideWallet

\* lines 283-307: the wallet moves to another chain
handleChainChanged ==
  /\ listening
  /\ ~userDisconnected
  /\ walletState.isConnected /\ walletState.address # NoAddress
  /\ StartTask("handleChainChanged", walletState.address)
  /\ UNCHANGED <<walletState, isChecking, isConnecting, userDisconnected,
                 walletError, ethAccounts, requests, effect_due, listening,
                 disconnect_called, reported>>
  /\ UNCHANGED OutsideWallet

\* lines 72-90, 190-207, 262-278, 289-305: getSigner and getNetwork settle
TaskSettles ==
  /\ \E t \in tasks :
       /\ tasks' = tasks \ {t}
       /\ \/ /\ \E c \in ChainIds : walletState' = Enriched(t.address, c)
             /\ userDisconnected' =
                  IF t.by = "connectWallet" THEN FALSE ELSE userDisconnected
          \/ UNCHANGED <<walletState, userDisconnected>>
  /\ UNCHANGED <<isChecking, isConnecting, walletError, ethAccounts, requests,
                 listening, disconnect_called, reported>>
  /\ Rerender
  /\ UNCHANGED OutsideWallet

NextWallet ==
  \/ checkWalletConnection
  \/ CheckSettles
  \/ handleConnect
  \/ ConnectSettles
  \/ handleDisconnect
  \/ handleAccountsChanged
  \/ handleChainChanged
  \/ TaskSettles

SpecWallet == InitWallet /\ [][NextWallet]_vars

\* =================================================================== claims
\* reference notions the claims are stated with
Contains(buf, pat) ==
  \E t \in 0..(Len(buf) - Len(pat)) :
     \A i \in 1..Len(pat) : buf[t + i] = pat[i]

ContainsAll(buf) ==
  Contains(buf, fromStr) /\ Contains(buf, toStr) /\ Contains(buf, atgStr)

\* the logical buffer of section 3: first min(len, MAX_LEN) bytes, then zeros
RefBuffer(raw) ==
  SubSeq(raw, 1, Min(Len(raw), MaxLen))
    \o [i \in 1..(MaxLen - Min(Len(raw), MaxLen)) |-> 0]

\* the commitment of section 3: fold over ceil(MAX_LEN / chunk) chunks
RefCommitment(buf) == DigestOf(buf, CeilDiv(MaxLen, ChunkBytes), TRUE)

\* a selector that is one-hot inside the valid window
RefOneHotWindow(sel, patternLen) ==
  /\ \A t \in 0..(MaxLen - patternLen) : sel[t + 1] \in {0, 1}
  /\ Cardinality({t \in 0..(MaxLen - patternLen) : sel[t + 1] = 1}) = 1

\* ... and zero outside it
RefOneHot(sel, patternLen) ==
  /\ RefOneHotWindow(sel, patternLen)
  /\ \A u \in (MaxLen - patternLen + 1)..(MaxLen - 1) : sel[u + 1] = 0

\* the offset a one-hot selector points to
SelectedOffset(sel, patternLen) ==
  CHOOSE t \in 0..(MaxLen - patternLen) : sel[t + 1] = 1

\* the start offsets of the occurrences of pat in the raw input
Occurrences(raw, pat) ==
  {t \in 0..Len(raw) :
     /\ t + Len(pat) <= Len(raw)
     /\ \A i \in 1..Len(pat) : raw[t + i] = pat[i]}

BuildFinished == bpc \in {"built", "thrown"}

Searched == bpc \in {"hash", "built", "thrown"}

\* an assignment satisfies the circuit when it assigns exactly the circuit's
\* input signals, each with its declared length, and the values satisfy
\* every constraint
SignalLen(name, value) == IF CircuitInputs[name] = 1 THEN 1 ELSE Len(value)

SatisfiesCircuit(asg) ==
  /\ DOMAIN asg = DOMAIN CircuitInputs
  /\ \A n \in DOMAIN asg : SignalLen(n, asg[n]) = CircuitInputs[n]
  /\ EmailHeaderVerifier(digestFromString(asg.email_hash),
                         mapBigInt(asg.email_data),
                         mapBigInt(asg.from_header_bytes),
                         mapBigInt(asg.to_header_bytes),
                         mapBigInt(asg.gmail_domain_bytes),
                         mapBigInt(asg.from_selector),
                         mapBigInt(asg.to_selector),
                         mapBigInt(asg.domain_selector))

\* the builder's object with each key replaced by the circuit signal that
\* plays the same role
RenamedInput ==
  [email_hash |-> input.eml_commitment,
   email_data |-> input.eml,
   from_header_bytes |-> input.from_bytes,
   to_header_bytes |-> input.to_bytes,
   gmail_domain_bytes |-> input.atg_bytes,
   from_selector |-> input.sel_from,
   to_selector |-> input.sel_to,
   domain_selector |-> input.sel_atg]

\* value-level congruence: up to the key names, every object the builder
\* returns satisfies the circuit
RenamedInputSatisfiesCircuit ==
  bpc = "built" => SatisfiesCircuit(RenamedInput)

\* the three matcher instances with the signals submitted so far
Matchers ==
  {m \in {[pattern |-> from_header_bytes, selector |-> from_selector, len |-> FROM_LEN],
          [pattern |-> to_header_bytes, selector |-> to_selector, len |-> TO_LEN],
          [pattern |-> gmail_domain_bytes, selector |-> domain_selector, len |-> DOMAIN_LEN]} :
     m.pattern # <<>>}

\* C1: every assignment that satisfies the circuit has an email_data that
\* contains "From:", "To:" and "@gmail.com"; a buffer lacking one of them
\* has no satisfying assignment, whatever the private signals are.
C1_ProofOfPresence ==
  cpc = "sat" => ContainsAll(email_data)

\* C2: whenever the padded buffer contains all three patterns, the build
\* succeeds and the object it returns satisfies the circuit.
C2_BuiltInputSatisfies ==
  (BuildFinished /\ ContainsAll(RefBuffer(bytes)))
     => (bpc = "built" /\ SatisfiesCircuit(input))

\* C3: whenever the padded buffer lacks one of the three patterns, the build
\* never hashes a chunk, never returns an object, and ends thrown.
C3_MissingPatternFailsEarly ==
  ~ContainsAll(RefBuffer(bytes))
     => /\ poseidon_calls = 0
        /\ h = <<>>
        /\ input = NoInput
        /\ bpc \in {"pad", "search", "thrown"}
        /\ (Searched => (bpc = "thrown" /\ error # ""))

C3_Witness ==
  /\ bpc = "thrown"
  /\ Contains(RefBuffer(bytes), fromStr)
  /\ Contains(RefBuffer(bytes), atgStr)
  /\ ~Contains(RefBuffer(bytes), toStr)
  /\ Len(bytes) > MaxLen

\* C4: for every padded buffer the builder's hashing loop yields the
\* hash_result the circuit computes over that buffer; the commitment the
\* builder emits equals the circuit's hash_result over the emitted buffer,
\* after the same number of hash calls; during the loop the running value
\* equals the circuit's hash chain prefix.
C4_MirroredCommitment ==
  /\ eml # <<>> =>
        HashLoop(ZeroDigest, eml, 0)
          = SequentialPoseidonHash(eml, MAX_EMAIL_LEN, CHUNK_COUNT)
  /\ bpc = "hash" =>
        /\ off = poseidon_calls * ChunkBytes
        /\ poseidon_calls <= CHUNK_COUNT
        /\ h = HashChain(eml, MAX_EMAIL_LEN, poseidon_calls)
  /\ bpc = "built" =>
        /\ poseidon_calls = CHUNK_COUNT
        /\ digestFromString(input.eml_commitment)
             = SequentialPoseidonHash(mapBigInt(input.eml), MAX_EMAIL_LEN, CHUNK_COUNT)

C4_Witness ==
  /\ bpc = "built"
  /\ \E k \in 1..MaxLen : eml[k] = 255
  /\ eml[MaxLen] # 0

\* C5: the object the builder returns has exactly the circuit's input signal
\* names, each with the declared length.
C5_ExactSignalSet ==
  bpc = "built" =>
     /\ DOMAIN input = DOMAIN CircuitInputs
     /\ \A n \in DOMAIN input : SignalLen(n, input[n]) = CircuitInputs[n]

\* C6: the hash block is satisfied only if email_hash is the section-3 fold
\* over ceil(MAX_LEN / chunk) little-endian chunks with zeros past MAX_LEN,
\* and the chunk count wired into the circuit is that ceiling.
C6_CommitmentIsFold ==
  /\ CHUNK_COUNT = CeilDiv(MAX_EMAIL_LEN, ChunkBytes)
  /\ REAL_CHUNK_COUNT = CeilDiv(REAL_MAX_EMAIL_LEN, REAL_CHUNK_BYTES)
  /\ cpc \in {"from", "to", "domain", "sat"} => email_hash = RefCommitment(email_data)
  /\ (cpc = "unsat" /\ from_header_bytes # <<>>) => email_hash = RefCommitment(email_data)

C6_Witness ==
  /\ cpc = "sat"
  /\ email_hash = RefCommitment(email_data)
  /\ email_data[MaxLen] # 0

\* C7: a selector that satisfies a PatternMatcher is boolean and one-hot on
\* 0 .. MAX_LEN - PATTERN_LEN and zero at every later index.
C7_SelectorOneHot ==
  \A m \in Matchers :
     PatternMatcher(email_data, m.pattern, m.selector, MAX_EMAIL_LEN, m.len)
        => RefOneHot(m.selector, m.len)

C7_Witness ==
  /\ cpc = "sat"
  /\ from_header_bytes = fromStr
  /\ to_header_bytes = toStr
  /\ gmail_domain_bytes = atgStr
  /\ \A m \in Matchers : RefOneHot(m.selector, m.len)
  /\ SelectedOffset(domain_selector, DOMAIN_LEN) = 0
  /\ SelectedOffset(from_selector, FROM_LEN) > SelectedOffset(to_selector, TO_LEN)

\* C8: for a selector one-hot in the window at offset s, the match relations
\* hold iff email_data[s + i] = pattern[i] for every i, and every index the
\* relations read lies in 0 .. MAX_LEN - 1.
C8_RelationsIffSubstring ==
  \A m \in Matchers :
     /\ \A i \in 0..(m.len - 1) :
          \A t \in 0..(VALID_POSITIONS(MAX_EMAIL_LEN, m.len) - 1) :
             MatchIndex(t, i) \in 0..(MaxLen - 1)
     /\ RefOneHotWindow(m.selector, m.len) =>
          (MatchConstraints(email_data, m.pattern, m.selector, MAX_EMAIL_LEN, m.len)
             <=> \A i \in 0..(m.len - 1) :
                    email_data[SelectedOffset(m.selector, m.len) + i + 1]
                       = m.pattern[i + 1])

C8_Witness ==
  /\ cpc = "to"
  /\ RefOneHot(from_selector, FROM_LEN)
  /\ SelectedOffset(from_selector, FROM_LEN) = MaxLen - FROM_LEN
  /\ from_header_bytes = fromStr

\* the selectors and buffer of the returned object, read back as numbers
Emitted ==
  {[selector |-> mapBigInt(input.sel_from), pattern |-> fromStr],
   [selector |-> mapBigInt(input.sel_to), pattern |-> toStr],
   [selector |-> mapBigInt(input.sel_atg), pattern |-> atgStr]}

\* C9: every returned selector has length MAX_LEN and exactly one 1, all
\* other entries 0, and the buffer bytes from the offset of the 1 are the
\* pattern bytes.
C9_SelectorCorrect ==
  bpc = "built" =>
     \A e \in Emitted :
        /\ Len(e.selector) = MaxLen
        /\ \E p \in 1..MaxLen :
             /\ e.selector[p] = 1
             /\ \A q \in (1..MaxLen) \ {p} : e.selector[q] = 0
             /\ p - 1 + Len(e.pattern) <= MaxLen
             /\ \A i \in 1..Len(e.pattern) :
                   mapBigInt(input.eml)[p - 1 + i] = e.pattern[i]

C9_Witness ==
  /\ bpc = "built"
  /\ idx_from > 0
  /\ idx_to > idx_from
  /\ Cardinality(Occurrences(bytes, toStr)) > 1

\* C10: a pattern whose only occurrence starts at offset 0, or at the last
\* valid offset MAX_LEN - PATTERN_LEN, is found there, and the build succeeds
\* when the other two patterns are in the buffer as well; a pattern whose
\* occurrences in the raw input all start after MAX_LEN - PATTERN_LEN is
\* absent and the build fails.
BoundaryCase(pat, idx) ==
  LET occ == Occurrences(bytes, pat)
      last == MaxLen - Len(pat)
  IN  /\ (occ = {0} \/ occ = {last}) =>
           /\ Searched => idx \in occ
           /\ (BuildFinished /\ ContainsAll(RefBuffer(bytes))) => bpc = "built"
      /\ (occ # {} /\ \A t \in occ : t > last) =>
           /\ Searched => idx < 0
           /\ BuildFinished => (bpc = "thrown" /\ input = NoInput)

C10_Boundary ==
  /\ BoundaryCase(fromStr, idx_from)
  /\ BoundaryCase(toStr, idx_to)
  /\ BoundaryCase(atgStr, idx_atg)

C10_Witness ==
  /\ bpc = "built"
  /\ Occurrences(bytes, fromStr) = {0}
  /\ Occurrences(bytes, atgStr) = {MaxLen - Len(atgStr)}
  /\ idx_from = 0
  /\ idx_atg = MaxLen - Len(atgStr)

C10_WitnessCutOff ==
  /\ bpc = "thrown"
  /\ Occurrences(bytes, toStr) = {MaxLen - Len(toStr) + 1}
  /\ Contains(RefBuffer(bytes), fromStr)
  /\ Contains(RefBuffer(bytes), atgStr)

\* the three searches of a build: the offset found and the pattern sought
Searches ==
  {[idx |-> idx_from, pattern |-> fromStr],
   [idx |-> idx_to, pattern |-> toStr],
   [idx |-> idx_atg, pattern |-> atgStr]}

\* C11: the buffer has exactly MAX_LEN elements, the first min(len, MAX_LEN)
\* are the input's bytes in order and the rest are 0; the offsets found, the
\* running commitment and the emitted buffer are all taken from this buffer.
C11_OneBuffer ==
  /\ bpc # "pad" =>
       /\ Len(eml) = MaxLen
       /\ \A k \in 1..MaxLen :
            eml[k] = IF k <= Min(Len(bytes), MaxLen) THEN bytes[k] ELSE 0
  /\ Searched =>
       \A s \in Searches :
          IF s.idx < 0 THEN ~Contains(eml, s.pattern)
                       ELSE OccursAt(eml, s.pattern, s.idx)
  /\ bpc \in {"hash", "built"} => h = DigestOf(eml, off \div ChunkBytes, TRUE)
  /\ bpc = "built" =>
       /\ Len(input.eml) = MaxLen
       /\ mapBigInt(input.eml) = eml
       /\ digestFromString(input.eml_commitment) = RefCommitment(eml)

C11_Witness ==
  /\ bpc = "built"
  /\ Len(bytes) > MaxLen
  /\ bytes[MaxLen] # 0
  /\ mapBigInt(input.eml)[MaxLen] = bytes[MaxLen]

C11_WitnessPadded ==
  /\ bpc = "built"
  /\ Len(bytes) < MaxLen
  /\ mapBigInt(input.eml)[MaxLen] = 0

\* C13: an assignment with an email_data element outside 0..255 never gets
\* past the hash block of the circuit, also when the submitted email_hash is
\* the fold of the values as submitted.
C13_OutOfRangeRejected ==
  (\E k \in 1..Len(email_data) : email_data[k] \notin 0..(BYTE_BASE - 1))
     => cpc \in {"hash", "unsat"}

C13_Witness ==
  /\ cpc = "unsat"
  /\ from_header_bytes = <<>>
  /\ email_hash = DigestOf(email_data, CHUNK_COUNT, TRUE)
  /\ \E k \in 1..Len(email_data) :
        /\ email_data[k] >= BYTE_BASE
        /\ \A j \in (1..Len(email_data)) \ {k} : email_data[j] \in 0..(BYTE_BASE - 1)

\* the patterns an error message names
NamedPatterns(msg) ==
  IF msg = "Required literals not found in .eml (need From:, To:, and @gmail.com)"
    THEN {fromStr, toStr, atgStr}
    ELSE {}

\* the patterns the padded buffer lacks
MissingPatterns(buf) == {pat \in {fromStr, toStr, atgStr} : ~Contains(buf, pat)}

\* C16: when the build fails for an absent pattern, the error names a
\* pattern, and every pattern it names is one the buffer lacks.
C16_ErrorNamesMissingPattern ==
  bpc = "thrown" =>
     /\ NamedPatterns(error) # {}
     /\ NamedPatterns(error) \subseteq MissingPatterns(RefBuffer(bytes))

C19_FirstOccurrence ==
  /\ Searched =>
       \A s \in Searches :
          /\ s.idx >= 0 =>
               /\ s.idx \in Occurrences(RefBuffer(bytes), s.pattern)
               /\ \A t \in 0..(s.idx - 1) :
                    t \notin Occurrences(RefBuffer(bytes), s.pattern)
          /\ s.idx < 0 => Occurrences(RefBuffer(bytes), s.pattern) = {}
  /\ bpc = "built" =>
       \A e \in Emitted :
          /\ RefOneHot(e.selector, Len(e.pattern))
          /\ \A t \in Occurrences(RefBuffer(bytes), e.pattern) :
               SelectedOffset(e.selector, Len(e.pattern)) <= t

C19_Witness ==
  /\ bpc = "built"
  /\ idx_from > 0
  /\ Cardinality(Occurrences(bytes, atgStr)) > 1
  /\ Cardinality(Occurrences(RefBuffer(bytes), atgStr)) = 1

C19_WitnessRepeated ==
  /\ Searched
  /\ Cardinality(Occurrences(RefBuffer(bytes), toStr)) > 1
  /\ idx_to > 0


EarlierBuilds ==
  {first_result[i].result : i \in {j \in 1..Len(first_result) :
                                      first_result[j].content = bytes}}

\* C12: a build that has settled settled as the first build of the same
\* bytes did, whatever was built, selected or removed in between.
C12_Deterministic ==
  (gpc = "build" /\ bpc \in {"built", "thrown"})
     => \A r \in EarlierBuilds : r = [input |-> input, error |-> error]

C12_Witness ==
  /\ gpc = "build"
  /\ bpc = "built"
  /\ EarlierBuilds # {}
  /\ \E i \in 1..Len(first_result) :
        /\ first_result[i].content # bytes
        /\ first_result[i].result.input # NoInput

\* the steps a proof request goes through, in order
StepOrder == <<"build", "witness", "prove">>

Started(step) == \E i \in 1..Len(steps) : steps[i] = step

\* C14: the steps started within one request are a prefix of build, witness,
\* prove; witness generation is started only with the object a finished
\* build returned, proving only with the witness that was generated, and
\* after a thrown build neither is started.
C14_StrictOrder ==
  /\ \E n \in 0..Len(StepOrder) : steps = SubSeq(StepOrder, 1, n)
  /\ gpc \in {"build", "witness", "prove"} => steps[Len(steps)] = gpc
  /\ Started("witness") => (bpc = "built" /\ input # NoInput)
  /\ Started("prove") => (witness # NoInput /\ witness = input)
  /\ (Started("build") /\ bpc = "thrown") =>
        /\ steps = <<"build">>
        /\ gpc \in {"build", "idle"}
        /\ witness = NoInput

C14_Witness ==
  /\ steps = StepOrder
  /\ gpc = "idle"
  /\ proofResult # NoProof

C14_WitnessBuildFails ==
  /\ steps = <<"build">>
  /\ bpc = "thrown"
  /\ gpc = "idle"
  /\ pageError = error


\* C15: a step that changes the record of an existing identity is a call by
\* the account that created it.
C15_OwnerGated ==
  [][\A id \in Identifiers :
       (identities[id].exists /\ identities'[id] # identities[id])
          => lastTx'.sender = creator[id]]_vars

\* the strings that are not exactly "0" or "1"
BadNumericStrings == NumericStrings \ {<<ASCII_ZERO>>, <<ASCII_ZERO + 1>>}

Rejected(r, st) == r.revert # "" /\ r.st = st

\* C20: every existing identity has age and ofacStatus in {0, 1}; in every
\* reachable state createIdentity, updateIdentity and updateNumericField
\* with another value, and updateField on "age" or "ofacStatus" with a
\* string that is not "0" or "1", revert and leave the storage as it is.
C20_FlagsBinary ==
  /\ \A id \in Identifiers :
       identities[id].exists =>
          (identities[id].age \in {0, 1} /\ identities[id].ofacStatus \in {0, 1})
  /\ \A id \in Identifiers :
       /\ \A d \in IdentityArgs :
            (d.age \notin {0, 1} \/ d.ofacStatus \notin {0, 1}) =>
               /\ Rejected(createIdentity(Storage, id, d), Storage)
               /\ Rejected(updateIdentity(Storage, id, d), Storage)
       /\ \A f \in {"age", "ofacStatus"} :
            /\ \A v \in Uint8Values \ {0, 1} :
                 Rejected(updateNumericField(Storage, id, f, v), Storage)
            /\ \A str \in BadNumericStrings :
                 Rejected(updateField(Storage, id, f, str), Storage)
  /\ lastTx.outcome = "Panic" => lastTx.fn = "updateField"

C20_Witness ==
  /\ lastTx.fn = "updateField"
  /\ lastTx.outcome = "Panic"
  /\ \E id \in Identifiers :
        /\ identities[id].exists
        /\ identities[id].age = 1
        /\ identities[id].ofacStatus = 1
        /\ updateField(Storage, id, "age", <<ASCII_ZERO - 1>>).revert = "Panic(0x11)"


\* lines 252-256: getIdentityByENS, the record returned or the revert
getIdentityByENS(st, ensId) ==
  LET identifier == st.ensToIdentifier[ensId]
  IN  IF ~(Len(identifier) > 0)
        THEN [revert |-> "No identity found for this ENS", identity |-> EmptyIdentity]
        ELSE [revert |-> "", identity |-> st.identities[identifier]]

\* lines 288-290
ensIsRegistered(st, ensId) == Len(st.ensToIdentifier[ensId]) > 0

\* lines 270-272
getTotalIdentities(st) == Len(st.allIdentifiers)

\* lines 279-281
identityExists(st, identifier) == st.identities[identifier].exists

\* C23: every existing identity is found through its own ENS name: the
\* index maps its mainENSId to its identifier, getIdentityByENS returns its
\* record and ensIsRegistered is true.
C23_IndexComplete ==
  \A id \in Identifiers :
     identities[id].exists =>
        /\ ensToIdentifier[identities[id].mainENSId] = id
        /\ getIdentityByENS(Storage, identities[id].mainENSId)
             = [revert |-> "", identity |-> identities[id]]
        /\ ensIsRegistered(Storage, identities[id].mainENSId)

\* C24: an index entry that is not empty names an existing identity whose
\* mainENSId is the entry's key, so getIdentityByENS(e) never returns a
\* record with another mainENSId.
C24_IndexSound ==
  \A e \in EnsNames :
     /\ Len(ensToIdentifier[e]) > 0 =>
          /\ identities[ensToIdentifier[e]].exists
          /\ identities[ensToIdentifier[e]].mainENSId = e
     /\ getIdentityByENS(Storage, e).revert = "" =>
          getIdentityByENS(Storage, e).identity.mainENSId = e

C24_Witness ==
  /\ lastTx.fn = "updateField"
  /\ lastTx.outcome = "ok"
  /\ \E i \in Identifiers, j \in Identifiers :
        /\ i # j
        /\ identities[i].exists
        /\ identities[j].exists
        /\ identities[i].mainENSId = identities[j].mainENSId
        /\ ensToIdentifier[identities[i].mainENSId] = i
  /\ \E e \in EnsNames : Len(e) > 0 /\ ensToIdentifier[e] = <<>>

\* C25: every existing identity has a non-empty identifier and a non-empty
\* mainENSId.
C25_NonEmptyNames ==
  \A id \in Identifiers :
     identities[id].exists => (Len(id) > 0 /\ Len(identities[id].mainENSId) > 0)

\* C26: createIdentity on an existing identifier reverts and changes
\* nothing; allIdentifiers lists each existing identifier exactly once and
\* nothing else, getTotalIdentities is the number of existing identities,
\* and an identity that was created exists.
C26_CreateOnce ==
  /\ \A id \in Identifiers :
       /\ identityExists(Storage, id) =>
            \A d \in IdentityArgs : Rejected(createIdentity(Storage, id, d), Storage)
       /\ Cardinality({k \in 1..Len(allIdentifiers) : allIdentifiers[k] = id})
            = IF identityExists(Storage, id) THEN 1 ELSE 0
       /\ creator[id] # "" => identityExists(Storage, id)
  /\ getTotalIdentities(Storage)
       = Cardinality({id \in Identifiers : identityExists(Storage, id)})

C26_Witness ==
  /\ lastTx.fn = "createIdentity"
  /\ lastTx.outcome = "Error"
  /\ getTotalIdentities(Storage) = 2
  /\ \A d \in IdentityArgs :
        createIdentity(Storage, allIdentifiers[1], d).revert
           \in {"Identity already exists", "Age must be 0 or 1", "OFAC status must be 0 or 1"}



\* a step of the call in flight settles and the call ends
CallEnds == gpc # "idle" /\ gpc' = "idle"

\* what the page holds after catch and finally: nothing of a result, the
\* message, the idle indicators, and no further step started
FailureOutcome ==
  /\ proofResult' = proofResult
  /\ localStorage' = localStorage
  /\ redirectTimer' = redirectTimer
  /\ isRedirecting' = isRedirecting
  /\ route' = route
  /\ pageError' # ""
  /\ ~isGenerating'
  /\ progress' = ""
  /\ steps' = steps

\* what the page holds after the last line of try, and finally
SuccessOutcome ==
  /\ proofResult' # NoProof
  /\ localStorage' = proofResult'
  /\ redirectTimer'
  /\ isRedirecting'

\* C22: a call of generateProof that ends at the read, at the build or at
\* witness generation, or that ends at proving without a proof, has failed:
\* it stores no proof result, writes nothing to localStorage, schedules no
\* redirect, sets the error message, puts isGenerating back to false, clears
\* progress, and starts no step again; a build that threw always ends so.
C22_FailureLeavesNothing ==
  [][/\ (CallEnds /\ gpc \in {"read", "build", "witness"}) => FailureOutcome
     /\ (CallEnds /\ gpc = "prove") => (FailureOutcome \/ SuccessOutcome)
     /\ (gpc = "build" /\ bpc = "thrown" /\ gpc' # gpc) =>
          (CallEnds /\ FailureOutcome /\ pageError' = error)
     /\ (gpc' # gpc /\ gpc' # "idle") =>
          (gpc' = "read" \/ ~Started(steps'[Len(steps')]))]_vars

\* proving failed without a message at the end of a full run: the page is
\* idle with the fallback message and nothing stored
C22_Witness ==
  /\ gpc = "idle"
  /\ steps = StepOrder
  /\ pageError = "Failed to generate proof"
  /\ ~isGenerating
  /\ progress = ""
  /\ proofResult = NoProof
  /\ localStorage = NoProof
  /\ ~redirectTimer


\* C29: a proof result held by the page is the proof of the file the page
\* has selected: a file is selected, and the public signals are the
\* commitment of that file's bytes.
C29_ProofOfShownFile ==
  proofResult # NoProof =>
    /\ emailFile # NoFile
    /\ proofResult.publicSignals = RefCommitment(RefBuffer(emailFile.content))

\* C21: while disconnectWallet has been called and connectWallet has not
\* been called since, the wallet state is disconnected: isConnected is false
\* and address is null.
C21_DisconnectRespected ==
  disconnect_called =>
    (~walletState.isConnected /\ walletState.address = NoAddress)

\* C27: while the account reported by the last accountsChanged event is in
\* force (no later accountsChanged, no disconnect, no manual disconnect in
\* force when it came), the wallet state's address is that account.
C27_AddressNotStale ==
  reported # NoAddress => walletState.address = reported

\* C28: isConnected is true exactly when address is non-null, and a state
\* that is not connected has address, balance, chainId, provider and signer
\* all null.
C28_ConnectedIffAddress ==
  /\ walletState.isConnected <=> walletState.address # NoAddress
  /\ ~walletState.isConnected =>
       /\ walletState.address = NoAddress
       /\ walletState.balance = NoObject
       /\ walletState.chainId = NoChain
       /\ walletState.provider = NoObject
       /\ walletState.signer = NoObject

\* a manual disconnect of an enriched wallet, with a task started by a
\* chain change still in flight
C28_Witness ==
  /\ ~walletState.isConnected
  /\ disconnect_called
  /\ userDisconnected
  /\ \E t \in tasks : t.by = "handleChainChanged"

\* an enrichment task has reconnected the wallet after the disconnect, and
\* the state it wrote is connected with an address
C28_WitnessStaleTask ==
  /\ disconnect_called
  /\ walletState.isConnected
  /\ walletState.chainId # NoChain

====
